---- MODULE Spec2Model ----
(***************************************************************************)
(* A state-machine model of the symbol-map registry (MapHandler and its    *)
(* Configuration chains, src/mathjax3-ts/input/tex/map_handler.ts) and of  *)
(* the node kinds of src/v3/MmlTree/ts/MmlNodes/semantics.ts.              *)
(*                                                                         *)
(* JavaScript values are modelled as strings ("undefined", "null", "true", *)
(* "false", ...), a JavaScript Map as a function whose DOMAIN is the set   *)
(* of keys it holds, an array as a sequence.                               *)
(***************************************************************************)
EXTENDS Integers, Sequences, FiniteSets, TLC

VARIABLES
  instance,        \* MapHandler.instance: "undefined" until the first access
  maps,            \* MapHandler.maps: name -> SymbolMap instance
  configurations,  \* MapHandler.configurations: category -> chain of instances
  console,         \* what the most recent call wrote with console.log
  last,            \* the most recent call: operation, arguments, outcome,
                   \* the number of chain entries before it and, for a
                   \* register, whether the call before it had warned that
                   \* the map's name was not found
  heap,            \* the property tables: the static defaults of the node
                   \* classes and the objects the nodes reference
  nodes,           \* the node instances constructed so far
  lastNode         \* the most recent operation on a node

registryVars == <<instance, maps, configurations, console, last>>

nodeVars == <<heap, nodes, lastNode>>

vars == <<instance, maps, configurations, console, last,
          heap, nodes, lastNode>>

-----------------------------------------------------------------------------
(* Bounds of the model *)

\* the largest number of chain entries, over the four chains together
MaxTotal == 2
\* the largest number of names a configure/append argument lists
MaxArg == 2
\* the largest number of nodes constructed
MaxNodes == 2

-----------------------------------------------------------------------------
(* JavaScript values *)

Undefined == "undefined"
Null == "null"

\* the values a JavaScript condition takes for false, among those modelled
Falsy == {Undefined, Null, "false"}

Truthy(v) == v \notin Falsy

\* a Map without keys
EmptyMap == [k \in {} |-> Undefined]

\* Map.prototype.set
MapSet(m, key, value) ==
  [k \in DOMAIN m \cup {key} |-> IF k = key THEN value ELSE m[k]]

\* Map.prototype.get
MapGet(m, key) == IF key \in DOMAIN m THEN m[key] ELSE Undefined

-----------------------------------------------------------------------------
(* The symbol maps: the SymbolMap contract of symbol_map.js, on three       *)
(* instances.  A1 and A2 are two different instances named "a".            *)

\* the type Configurations of types.js: the four categories
Configurations == {"delimiter", "character", "macro", "environment"}

SymbolMaps == {"A1", "A2", "B1"}

Names == {"a", "b"}

Symbols == {"x", "y"}

getName(map) == IF map \in {"A1", "A2"} THEN "a" ELSE "b"

SymbolMap_contains(map, symbol) ==
  CASE map = "A1" -> symbol \in {"x"}
    [] map = "A2" -> symbol \in {"x", "y"}
    [] map = "B1" -> symbol \in {"x", "y"}
    [] OTHER -> FALSE

\* the parse value of a symbol; A1 contains "x" and has no value for it
SymbolMap_lookup(map, symbol) ==
  CASE map = "A2" /\ symbol = "x" -> "xa2"
    [] map = "A2" /\ symbol = "y" -> "ya2"
    [] map = "B1" /\ symbol = "x" -> "xb1"
    [] map = "B1" /\ symbol = "y" -> "yb1"
    [] OTHER -> Undefined

\* whether parse raises: A2 recognises "y" and finds its input malformed
SymbolMap_parse_throws(map, input) == map = "A2" /\ input = "y"

\* the ParseResult of a map (void | boolean in types.js), null when the map
\* does not apply; the input is modelled by its symbol
SymbolMap_parse(map, input) ==
  CASE map = "A2" /\ input = "x" -> "false"
    [] map = "B1" /\ input = "x" -> "true"
    [] map = "B1" /\ input = "y" -> "true"
    [] OTHER -> Null

-----------------------------------------------------------------------------
(* class Configuration.  A Configuration object is its array of maps; the  *)
(* operations that log take and return the pair of the array and the       *)
(* console output: [configuration |-> <<...>>, console |-> <<...>>].       *)

\* Configuration.warn
warn(out, message) == Append(out, "TexParser Warning: " \o message)

\* getMap giving a map, A1, for a name the store does not hold
getMap_any(name) == IF name \in DOMAIN maps THEN maps[name] ELSE "A1"

\* MapHandler.getMap
getMap(name) == MapGet(maps, name)

\* add without the test "if (!map)": whatever getMap returns is pushed
add_unchecked(this, name) ==
  [this EXCEPT !.configuration = Append(@, getMap(name))]

\* add with unshift in place of push
add_front(this, name) ==
  LET map == getMap(name) IN
  IF ~Truthy(map)
    THEN [this EXCEPT !.console =
            warn(@, "Configuration " \o name \o " not found! Omitted.")]
    ELSE [this EXCEPT !.configuration = <<map>> \o @]

\* add leaving out a map the chain already has
add_once(this, name) ==
  LET map == getMap(name) IN
  IF ~Truthy(map)
    THEN [this EXCEPT !.console =
            warn(@, "Configuration " \o name \o " not found! Omitted.")]
    ELSE IF \E i \in 1..Len(this.configuration) :
              this.configuration[i] = map
      THEN this
      ELSE [this EXCEPT !.configuration = Append(@, map)]

\* Configuration.add
add(this, name) ==
  LET map == getMap(name) IN
  IF ~Truthy(map)
    THEN [this EXCEPT !.console =
            warn(@, "Configuration " \o name \o " not found! Omitted.")]
    ELSE [this EXCEPT !.configuration = Append(@, map)]

\* the loop "for (const name of names) this.add(name)"
RECURSIVE addAll(_, _)
addAll(this, names) ==
  IF names = <<>> THEN this
  ELSE addAll(add(this, Head(names)), Tail(names))

\* new Configuration(names), with the console output so far
Configuration_new(out, names) ==
  addAll([configuration |-> <<>>, console |-> out], names)

\* applicable looking at the first map of the chain only
applicable_first(configuration, symbol) ==
  IF configuration = <<>> THEN Null
  ELSE IF SymbolMap_contains(Head(configuration), symbol)
         THEN Head(configuration)
         ELSE Null

\* Configuration.applicable: the first map of the chain containing the symbol
RECURSIVE applicable(_, _)
applicable(configuration, symbol) ==
  IF configuration = <<>> THEN Null
  ELSE IF SymbolMap_contains(Head(configuration), symbol)
         THEN Head(configuration)
         ELSE applicable(Tail(configuration), symbol)

\* Configuration.contains
Configuration_contains(configuration, symbol) ==
  IF Truthy(applicable(configuration, symbol)) THEN "true" ELSE "false"

\* lookup falling through to the next map, the way parse does: the value of
\* the first map that has one
RECURSIVE lookup_through(_, _)
lookup_through(configuration, symbol) ==
  IF configuration = <<>> THEN Null
  ELSE IF Truthy(SymbolMap_lookup(Head(configuration), symbol))
         THEN SymbolMap_lookup(Head(configuration), symbol)
         ELSE lookup_through(Tail(configuration), symbol)

\* Configuration.lookup
Configuration_lookup(configuration, symbol) ==
  LET map == applicable(configuration, symbol) IN
  IF Truthy(map) THEN SymbolMap_lookup(map, symbol) ELSE Null

\* the loop of parse with each call in a try block whose catch goes on to
\* the next map
RECURSIVE parseLoop_caught(_, _, _, _)
parseLoop_caught(configuration, input, i, calls) ==
  IF i > Len(configuration)
    THEN [result |-> Null, threw |-> FALSE, calls |-> calls]
  ELSE LET map == configuration[i]
           called == Append(calls, map)
       IN  IF SymbolMap_parse_throws(map, input)
             THEN parseLoop_caught(configuration, input, i + 1, called)
           ELSE LET result == SymbolMap_parse(map, input) IN
                IF Truthy(result)
                  THEN [result |-> result, threw |-> FALSE, calls |-> called]
                  ELSE parseLoop_caught(configuration, input, i + 1, called)

\* Configuration.parse: the loop over the chain from its i-th map on, with
\* the maps whose parse was called so far
RECURSIVE parseLoop(_, _, _, _)
parseLoop(configuration, input, i, calls) ==
  IF i > Len(configuration)
    THEN [result |-> Null, threw |-> FALSE, calls |-> calls]
  ELSE LET map == configuration[i]
           called == Append(calls, map)
       IN  IF SymbolMap_parse_throws(map, input)
             THEN [result |-> Undefined, threw |-> TRUE, calls |-> called]
           ELSE LET result == SymbolMap_parse(map, input) IN
                IF Truthy(result)
                  THEN [result |-> result, threw |-> FALSE, calls |-> called]
                  ELSE parseLoop(configuration, input, i + 1, called)

\* as Configuration.parse, were the maps of the store tried after those of
\* the chain
Configuration_parse_store(configuration, input) ==
  LET held == SelectSeq(<<"a", "b">>, LAMBDA n : n \in DOMAIN maps)
  IN  parseLoop(configuration \o [i \in 1..Len(held) |-> maps[held[i]]],
                input, 1, <<>>)

Configuration_parse(configuration, input) ==
  parseLoop(configuration, input, 1, <<>>)

\* Configuration.toString
RECURSIVE Configuration_toString(_)
Configuration_toString(configuration) ==
  IF configuration = <<>> THEN ""
  ELSE IF Len(configuration) = 1 THEN getName(configuration[1])
  ELSE getName(configuration[1]) \o ", "
         \o Configuration_toString(Tail(configuration))

-----------------------------------------------------------------------------
(* class MapHandler.  The methods that change the chains take and return   *)
(* the record [configurations, console, threw]: the Map of chains, the     *)
(* console output, and whether a TypeError was raised (by calling a method *)
(* of the undefined value that Map.get returns for a missing key).         *)

\* config.delimiter, config.character, ...: the value of a property of the
\* argument object, <<list>> when the object has the key and <<>> (for
\* undefined) when it has not
Prop(config, name) ==
  IF name \in DOMAIN config THEN <<config[name]>> ELSE <<>>

\* register keeping the map a name already has
register_keep(store, map) ==
  IF getName(map) \in DOMAIN store THEN store
  ELSE MapSet(store, getName(map), map)

\* register with a store made anew for the map
register_alone(store, map) == [n \in {getName(map)} |-> map]

\* MapHandler.register
register(store, map) == MapSet(store, getName(map), map)

\* configure_ adding to the chain the category has, not to a new one
configure_keep(w, config, name) ==
  LET old == IF name \in DOMAIN w.configurations
               THEN w.configurations[name] ELSE <<>>
      made == addAll([configuration |-> old, console |-> w.console],
                     IF config = <<>> THEN <<>> ELSE config[1])
  IN  [w EXCEPT !.configurations = MapSet(@, name, made.configuration),
                !.console = made.console]

\* MapHandler.configure_
configure_(w, config, name) ==
  LET made == Configuration_new(w.console,
                                IF config = <<>> THEN <<>> ELSE config[1])
  IN  [w EXCEPT !.configurations = MapSet(@, name, made.configuration),
                !.console = made.console]

\* MapHandler.configure
configure(w, config) ==
  LET w1 == configure_(w, Prop(config, "delimiter"), "delimiter")
      w2 == configure_(w1, Prop(config, "character"), "character")
      w3 == configure_(w2, Prop(config, "macro"), "macro")
  IN  configure_(w3, Prop(config, "environment"), "environment")

\* the loop of MapHandler.append_:
\* "for (const map of config) this.configurations.get(name).add(map)"
RECURSIVE append_loop(_, _, _)
append_loop(w, names, name) ==
  IF names = <<>> \/ w.threw THEN w
  ELSE IF name \notin DOMAIN w.configurations
    THEN [w EXCEPT !.threw = TRUE]
  ELSE LET added == add([configuration |-> w.configurations[name],
                         console |-> w.console], Head(names))
       IN  append_loop([w EXCEPT !.configurations[name] = added.configuration,
                                 !.console = added.console],
                       Tail(names), name)

\* append_ treating a missing list the way configure_ does, as []
append_reset(w, config, name) ==
  IF w.threw THEN w
  ELSE IF config = <<>> THEN configure_(w, config, name)
  ELSE append_loop(w, config[1], name)

\* MapHandler.append_
append_(w, config, name) ==
  IF w.threw \/ config = <<>> THEN w
  ELSE append_loop(w, config[1], name)

\* MapHandler.append
append(w, config) ==
  LET w1 == append_(w, Prop(config, "delimiter"), "delimiter")
      w2 == append_(w1, Prop(config, "character"), "character")
      w3 == append_(w2, Prop(config, "macro"), "macro")
  IN  append_(w3, Prop(config, "environment"), "environment")

\* the outcome of calling a method of this.configurations.get(kind)
NoConfiguration == [result |-> Undefined, threw |-> TRUE, calls |-> <<>>]

Returned(v) == [result |-> v, threw |-> FALSE, calls |-> <<>>]

\* MapHandler.parse
MapHandler_parse(cs, kind, input) ==
  IF kind \notin DOMAIN cs THEN NoConfiguration
  ELSE Configuration_parse(cs[kind], input)

\* MapHandler.lookup
MapHandler_lookup(cs, kind, symbol) ==
  IF kind \notin DOMAIN cs THEN NoConfiguration
  ELSE Returned(Configuration_lookup(cs[kind], symbol))

\* MapHandler.contains
MapHandler_contains(cs, kind, symbol) ==
  IF kind \notin DOMAIN cs THEN NoConfiguration
  ELSE Returned(Configuration_contains(cs[kind], symbol))

\* the keys of this.configurations, in the order configure set them
ConfigurationKeys == <<"delimiter", "character", "macro", "environment">>

\* MapHandler.toString: one line per chain
RECURSIVE toStringLoop(_, _)
toStringLoop(cs, keys) ==
  IF keys = <<>> THEN ""
  ELSE (IF Head(keys) \in DOMAIN cs
          THEN Head(keys) \o ": " \o Configuration_toString(cs[Head(keys)])
                 \o "\n"
          ELSE "")
       \o toStringLoop(cs, Tail(keys))

MapHandler_toString(cs) == toStringLoop(cs, ConfigurationKeys)

\* a constructor that leaves out this.configure({})
MapHandler_new_bare ==
  [configurations |-> EmptyMap, console |-> <<>>, threw |-> FALSE]

\* the private constructor: the field initialisers, then this.configure({})
MapHandler_new ==
  configure([configurations |-> EmptyMap, console |-> <<>>, threw |-> FALSE],
            EmptyMap)

-----------------------------------------------------------------------------
(* The node classes of MmlNodes/semantics.ts.  A PropertyList is a         *)
(* function from the property names it holds to their values.  The heap is *)
(* the sequence of the PropertyList objects; a reference is an index into  *)
(* it.  The static tables are made when the classes are defined, the       *)
(* per-instance ones when a node is constructed.                           *)

\* an object literal's spread: {...base, own}
Spread(base, own) ==
  [p \in DOMAIN base \cup DOMAIN own |->
     IF p \in DOMAIN own THEN own[p] ELSE base[p]]

\* AMmlNode.defaults and AMmlBaseNode.defaults of MmlNode.ts
AMmlNode_defaults == [p \in {} |-> Null]

AMmlBaseNode_defaults == [p \in {} |-> Null]

\* MmlSemantics.defaults
MmlSemantics_defaults ==
  Spread(AMmlBaseNode_defaults, [definitionUrl |-> Null, encoding |-> Null])

\* MmlAnnotationXML.defaults
MmlAnnotationXML_defaults ==
  Spread(AMmlNode_defaults,
         [definitionUrl |-> Null, encoding |-> Null, cd |-> "mathmlkeys",
          name |-> "", src |-> Null])

\* the field initialiser of MmlAnnotation: properties = {isChars: true}
MmlAnnotation_properties == [isChars |-> "true"]

Classes == {"MmlSemantics", "MmlAnnotationXML", "MmlAnnotation"}

\* the class after "extends"
Extends(class) ==
  CASE class = "MmlSemantics" -> "AMmlBaseNode"
    [] class = "MmlAnnotationXML" -> "AMmlNode"
    [] class = "MmlAnnotation" -> "MmlAnnotationXML"
    [] OTHER -> ""

\* the heap as the class definitions leave it: one table for each class
\* that declares "static defaults"
StaticHeap ==
  <<AMmlBaseNode_defaults, AMmlNode_defaults,
    MmlSemantics_defaults, MmlAnnotationXML_defaults>>

\* Class.defaults: the table the class declares, or the one it inherits
\* with the other static members of its superclass
RECURSIVE defaults(_)
defaults(class) ==
  CASE class = "AMmlBaseNode" -> 1
    [] class = "AMmlNode" -> 2
    [] class = "MmlSemantics" -> 3
    [] class = "MmlAnnotationXML" -> 4
    [] OTHER -> defaults(Extends(class))

\* get kind()
RECURSIVE Node_kind(_)
Node_kind(class) ==
  CASE class = "MmlSemantics" -> "semantics"
    [] class = "MmlAnnotationXML" -> "annotation-xml"
    [] class \in {"AMmlNode", "AMmlBaseNode"} -> "unknown"
    [] OTHER -> Node_kind(Extends(class))

\* get notParent()
RECURSIVE notParent(_)
notParent(class) ==
  CASE class = "MmlSemantics" -> TRUE
    [] class \in {"AMmlNode", "AMmlBaseNode"} -> FALSE
    [] OTHER -> notParent(Extends(class))

\* as linebreakContainer, were the getter of no use to a subclass
linebreakContainer_own(class) == class = "MmlAnnotationXML"

\* get linebreakContainer()
RECURSIVE linebreakContainer(_)
linebreakContainer(class) ==
  CASE class = "MmlAnnotationXML" -> TRUE
    [] class \in {"AMmlNode", "AMmlBaseNode"} -> FALSE
    [] OTHER -> linebreakContainer(Extends(class))

\* the constructor of the base classes of MmlNode.ts: the property bag of
\* the new node is a copy of the defaults of its class
AMmlNode_new(h, class) ==
  [heap |-> Append(h, h[defaults(class)]),
   node |-> [class |-> class, properties |-> Len(h) + 1]]

\* as fieldInitialisers, were the initialiser of MmlAnnotation to assign the
\* table its class holds instead of a new object
RECURSIVE fieldInitialisers_shared(_, _)
fieldInitialisers_shared(made, class) ==
  IF class \notin Classes THEN made
  ELSE LET base == fieldInitialisers_shared(made, Extends(class)) IN
       IF class = "MmlAnnotation"
         THEN [heap |-> base.heap,
               node |-> [base.node EXCEPT !.properties = defaults(class)]]
         ELSE base

\* the field initialisers of the classes of semantics.ts, which run when
\* the constructor of the superclass has returned; MmlAnnotation alone has
\* one, and it assigns a new object to this.properties
RECURSIVE fieldInitialisers(_, _)
fieldInitialisers(made, class) ==
  IF class \notin Classes THEN made
  ELSE LET base == fieldInitialisers(made, Extends(class)) IN
       IF class = "MmlAnnotation"
         THEN [heap |-> Append(base.heap, MmlAnnotation_properties),
               node |-> [base.node EXCEPT
                           !.properties = Len(base.heap) + 1]]
         ELSE base

\* new MmlSemantics(), new MmlAnnotationXML(), new MmlAnnotation()
new(h, class) == fieldInitialisers(AMmlNode_new(h, class), class)

\* node.properties[name] = value
setProperty(h, node, name, value) ==
  [h EXCEPT ![node.properties] = Spread(@, [p \in {name} |-> value])]

-----------------------------------------------------------------------------
(* The arguments the calls are made with *)

RECURSIVE SeqsUpTo(_, _)
SeqsUpTo(S, n) ==
  IF n = 0 THEN {<<>>}
  ELSE LET shorter == SeqsUpTo(S, n - 1) IN
       shorter \cup {Append(s, x) : s \in shorter, x \in S}

RECURSIVE SumOver(_, _)
SumOver(f, D) ==
  IF D = {} THEN 0
  ELSE LET k == CHOOSE k \in D : TRUE IN f[k] + SumOver(f, D \ {k})

\* the objects given to configure and append: {} and the objects with one
\* category, {delimiter: [...]}, {character: [...]}, ...
ConfigArgs ==
  {EmptyMap} \cup
  { [k \in {kind} |-> names] :
      kind \in Configurations, names \in SeqsUpTo(Names, MaxArg) }

\* the properties set on nodes, and the values they are set to
SetNames == {"encoding", "isChars"}

SetValues == {"utf8"}

Total(cs) == SumOver([k \in DOMAIN cs |-> Len(cs[k])], DOMAIN cs)

-----------------------------------------------------------------------------
(* The state machine *)

NoCall ==
  [op |-> "none", config |-> EmptyMap, kind |-> "", symbol |-> "",
   map |-> "", result |-> Undefined, threw |-> FALSE, calls |-> <<>>,
   before |-> 0, forward |-> FALSE]

\* whether the call before wrote the warning that a name was not found
Forward(name) ==
  \E i \in 1..Len(console) :
    console[i] = warn(<<>>, "Configuration " \o name \o " not found! Omitted.")[1]

NoNodeCall == [op |-> "none", node |-> 0, name |-> "", value |-> ""]

Init ==
  /\ instance = Undefined
  /\ maps = EmptyMap
  /\ configurations = EmptyMap
  /\ console = <<>>
  /\ last = NoCall
  /\ heap = StaticHeap
  /\ nodes = <<>>
  /\ lastNode = NoNodeCall

\* MapHandler.getInstance(): the first access constructs the singleton
GetInstance ==
  /\ IF ~Truthy(instance)
       THEN /\ instance' = "MapHandler"
            /\ maps' = EmptyMap
            /\ configurations' = MapHandler_new.configurations
            /\ console' = MapHandler_new.console
       ELSE /\ UNCHANGED <<instance, maps, configurations>>
            /\ console' = <<>>
  /\ last' = [NoCall EXCEPT !.op = "getInstance", !.result = "MapHandler",
                            !.before = Total(configurations)]
  /\ UNCHANGED nodeVars

\* MapHandler.getInstance().register(map)
Register(map) ==
  /\ Truthy(instance)
  /\ maps' = register(maps, map)
  /\ console' = <<>>
  /\ last' = [NoCall EXCEPT !.op = "register", !.map = map,
                            !.forward = Forward(getName(map)),
                            !.before = Total(configurations)]
  /\ UNCHANGED <<instance, configurations>>
  /\ UNCHANGED nodeVars

\* MapHandler.getInstance().configure(config)
Configure(config) ==
  /\ Truthy(instance)
  /\ \E w \in {configure([configurations |-> configurations,
                          console |-> <<>>, threw |-> FALSE], config)} :
         /\ Total(w.configurations) <= MaxTotal
         /\ configurations' = w.configurations
         /\ console' = w.console
         /\ last' = [NoCall EXCEPT !.op = "configure", !.config = config,
                                   !.threw = w.threw,
                                   !.before = Total(configurations)]
  /\ UNCHANGED <<instance, maps>>
  /\ UNCHANGED nodeVars

\* MapHandler.getInstance().append(config)
AppendConfig(config) ==
  /\ Truthy(instance)
  /\ \E w \in {append([configurations |-> configurations,
                       console |-> <<>>, threw |-> FALSE], config)} :
         /\ Total(w.configurations) <= MaxTotal
         /\ configurations' = w.configurations
         /\ console' = w.console
         /\ last' = [NoCall EXCEPT !.op = "append", !.config = config,
                                   !.threw = w.threw,
                                   !.before = Total(configurations)]
  /\ UNCHANGED <<instance, maps>>
  /\ UNCHANGED nodeVars

Query(op, kind, symbol, outcome) ==
  /\ Truthy(instance)
  /\ console' = <<>>
  /\ \E o \in {outcome} :
       last' = [NoCall EXCEPT !.op = op, !.kind = kind, !.symbol = symbol,
                              !.result = o.result, !.threw = o.threw,
                              !.calls = o.calls,
                              !.before = Total(configurations)]
  /\ UNCHANGED <<instance, maps, configurations>>
  /\ UNCHANGED nodeVars

\* MapHandler.getInstance().parse(kind, input)
Parse(kind, input) ==
  Query("parse", kind, input, MapHandler_parse(configurations, kind, input))

\* MapHandler.getInstance().lookup(kind, symbol)
Lookup(kind, symbol) ==
  Query("lookup", kind, symbol,
        MapHandler_lookup(configurations, kind, symbol))

\* MapHandler.getInstance().contains(kind, symbol)
Contains(kind, symbol) ==
  Query("contains", kind, symbol,
        MapHandler_contains(configurations, kind, symbol))

\* MapHandler.getInstance().toString()
Render ==
  Query("toString", "", "", Returned(MapHandler_toString(configurations)))

Next ==
  \/ GetInstance
  \/ \E map \in SymbolMaps : Register(map)
  \/ \E config \in ConfigArgs : Configure(config)
  \/ \E config \in ConfigArgs : AppendConfig(config)
  \/ \E kind \in Configurations, input \in Symbols : Parse(kind, input)
  \/ \E kind \in Configurations, symbol \in Symbols : Lookup(kind, symbol)
  \/ \E kind \in Configurations, symbol \in Symbols : Contains(kind, symbol)
  \/ Render

Spec == Init /\ [][Next]_vars

\* new Class()
NewNode(class) ==
  /\ Len(nodes) < MaxNodes
  /\ \E made \in {new(heap, class)} :
       /\ heap' = made.heap
       /\ nodes' = Append(nodes, made.node)
       /\ lastNode' = [NoNodeCall EXCEPT !.op = "new",
                                         !.node = Len(nodes) + 1]
  /\ UNCHANGED registryVars

\* a property of a node is set
SetProperty(n, name, value) ==
  /\ n \in 1..Len(nodes)
  /\ heap' = setProperty(heap, nodes[n], name, value)
  /\ lastNode' = [op |-> "set", node |-> n, name |-> name, value |-> value]
  /\ UNCHANGED nodes
  /\ UNCHANGED registryVars

NextNodes ==
  \/ \E class \in Classes : NewNode(class)
  \/ \E n \in 1..MaxNodes, name \in SetNames, value \in SetValues :
       SetProperty(n, name, value)

SpecNodes == Init /\ [][NextNodes]_vars

-----------------------------------------------------------------------------
(* What the properties below are stated with.  These say what a call is to *)
(* do in terms of the store and the chains, not how the code does it.      *)

\* the maps the store holds for the names of a list, in the order listed,
\* the names it does not hold left out
Resolved(names, store) ==
  LET held == SelectSeq(names, LAMBDA n : n \in DOMAIN store)
  IN  [i \in 1..Len(held) |-> store[held[i]]]

\* the names of a list the store does not hold, in the order listed
Missing(names, store) == SelectSeq(names, LAMBDA n : n \notin DOMAIN store)

\* the list an argument object gives for a category, [] when it gives none
Listed(config, kind) ==
  IF kind \in DOMAIN config THEN config[kind] ELSE <<>>

WarningFor(name) ==
  "TexParser Warning: Configuration " \o name \o " not found! Omitted."

\* the warnings a call with this argument is to write, category by category
ExpectedWarnings(config, store) ==
  LET W(kind) == LET m == Missing(Listed(config, kind), store)
                 IN  [i \in 1..Len(m) |-> WarningFor(m[i])]
  IN  W("delimiter") \o W("character") \o W("macro") \o W("environment")

\* the positions of the chain whose map contains the symbol
Containing(chain, symbol) ==
  {i \in 1..Len(chain) : SymbolMap_contains(chain[i], symbol)}

Min(S) == CHOOSE i \in S : \A j \in S : i <= j

-----------------------------------------------------------------------------
\* C1: after any sequence of register, configure and append calls,
\* MapHandler.contains(C, S) returns true exactly when some map of C's
\* chain contains S, and false otherwise; the maps of the store that are
\* not in C's chain do not count.
C1_ContainsIffInChain ==
  last.op = "contains" =>
    /\ ~last.threw
    /\ last.result \in {"true", "false"}
    /\ (last.result = "true")
         <=> Containing(configurations[last.kind], last.symbol) # {}

\* contains answered false on a non-empty chain although the store holds a
\* map, never added to that chain, that contains the symbol
C1_Witness ==
  /\ last.op = "contains"
  /\ last.result = "false"
  /\ configurations[last.kind] # <<>>
  /\ \E n \in DOMAIN maps : SymbolMap_contains(maps[n], last.symbol)

\* C2: lookup(S) returns the lookup(S) value of the first map of the chain
\* that contains S, also when that value is absent and a later map that
\* contains S has a value; it returns null when no map of the chain
\* contains S.
C2_LookupFirstContaining ==
  last.op = "lookup" =>
    LET chain == configurations[last.kind]
        at == Containing(chain, last.symbol)
    IN  /\ ~last.threw
        /\ at = {} => last.result = Null
        /\ at # {} => last.result = SymbolMap_lookup(chain[Min(at)], last.symbol)

\* lookup returned the absent value of the first containing map while a
\* later map of the chain contains the symbol and has a value for it
C2_Witness ==
  /\ last.op = "lookup"
  /\ ~Truthy(last.result)
  /\ LET chain == configurations[last.kind] IN
     \E i, j \in 1..Len(chain) :
       /\ i < j
       /\ SymbolMap_contains(chain[i], last.symbol)
       /\ SymbolMap_contains(chain[j], last.symbol)
       /\ Truthy(SymbolMap_lookup(chain[j], last.symbol))

\* C3: on a chain [M1, M2] whose maps both contain S, where M1.parse is
\* absent (null) and M2.parse is not, parse returns M2's result.
C3_ParseSecondMapResult ==
  last.op = "parse" =>
    LET chain == configurations[last.kind] IN
    ( /\ Len(chain) = 2
      /\ SymbolMap_contains(chain[1], last.symbol)
      /\ SymbolMap_contains(chain[2], last.symbol)
      /\ ~SymbolMap_parse_throws(chain[1], last.symbol)
      /\ ~SymbolMap_parse_throws(chain[2], last.symbol)
      /\ SymbolMap_parse(chain[1], last.symbol) = Null
      /\ SymbolMap_parse(chain[2], last.symbol) # Null )
    => last.result = SymbolMap_parse(chain[2], last.symbol)

\* C4: registering a map under a name puts it in the store and changes no
\* chain, so a chain keeps the instance it added before; every entry that
\* an append or a configure done afterwards adds is the instance the store
\* holds under its name at that moment.
C4_Step ==
  /\ last'.op = "register" =>
       /\ configurations' = configurations
       /\ maps'[getName(last'.map)] = last'.map
  /\ last'.op = "append" =>
       \A kind \in Configurations :
         \A i \in (Len(configurations[kind]) + 1)
                    ..Len(configurations'[kind]) :
           LET map == configurations'[kind][i] IN
           getName(map) \in DOMAIN maps /\ maps[getName(map)] = map
  /\ last'.op = "configure" =>
       \A kind \in Configurations :
         \A i \in 1..Len(configurations'[kind]) :
           LET map == configurations'[kind][i] IN
           getName(map) \in DOMAIN maps /\ maps[getName(map)] = map

\* C4: every step keeps to C4_Step: a register changes the store entry of
\* the map's name and no chain; later adds place the instance then stored.
C4_ReregisterKeepsChains == [][C4_Step]_vars

\* after A1 was added, A2 was registered under the same name and the name
\* was added again: the chain holds A1 and, behind it, A2
C4_Witness ==
  /\ last.op = "append"
  /\ MapGet(maps, "a") = "A2"
  /\ \E kind \in Configurations :
       LET chain == configurations[kind] IN
       \E i, j \in 1..Len(chain) :
         i < j /\ chain[i] = "A1" /\ chain[j] = "A2"

\* C5: after configure(config) each of the four categories has the chain of
\* the maps the store holds for the names config lists for it, in the
\* order listed, and the empty chain when config has no list for it.
C5_ConfigureReplaces ==
  last.op = "configure" =>
    /\ ~last.threw
    /\ DOMAIN configurations = Configurations
    /\ \A kind \in Configurations :
         configurations[kind] = Resolved(Listed(last.config, kind), maps)

\* configure on a registry whose chains held entries, naming two different
\* registered maps for a category: only these two are in the chains
C5_Witness ==
  /\ last.op = "configure"
  /\ last.before > 0
  /\ \E kind \in DOMAIN last.config :
       /\ Len(configurations[kind]) = 2
       /\ configurations[kind][1] # configurations[kind][2]
       /\ Total(configurations) = 2

\* C6: an append or a configure that names maps the store does not hold
\* does not raise; it writes one warning for each such name, a chain gets
\* one entry for each name the store holds and none for the others, and an
\* append keeps the entries the chain had, in their order.
C6_Step ==
  last'.op \in {"append", "configure"} =>
    /\ ~last'.threw
    /\ console' = ExpectedWarnings(last'.config, maps)
    /\ \A kind \in DOMAIN last'.config :
         LET old == IF last'.op = "append"
                      THEN configurations[kind] ELSE <<>>
             held == Len(last'.config[kind])
                       - Len(Missing(last'.config[kind], maps))
         IN  /\ Len(configurations'[kind]) = Len(old) + held
             /\ SubSeq(configurations'[kind], 1, Len(old)) = old

\* C6: every step keeps to C6_Step: a name the store does not hold costs a
\* warning and adds no entry, and the call goes on without raising.
C6_UnknownNameOmitted == [][C6_Step]_vars

\* an append naming an unregistered name and then a registered one, on a
\* chain that held an entry: one warning, and the chain grew by one entry
C6_Witness ==
  /\ last.op = "append"
  /\ Len(console) = 1
  /\ \E kind \in DOMAIN last.config :
       /\ Len(last.config[kind]) = 2
       /\ last.config[kind][1] \notin DOMAIN maps
       /\ last.config[kind][2] \in DOMAIN maps
       /\ Len(configurations[kind]) = 2
       /\ last.before = 1

\* C7: append(config) leaves, for every category config lists, the chain it
\* had followed by the maps the store holds for the names listed, in the
\* order listed.
C7_Step ==
  last'.op = "append" =>
    \A kind \in DOMAIN last'.config :
      configurations'[kind] =
        configurations[kind] \o Resolved(last'.config[kind], maps)

\* C7: every step keeps to C7_Step: an append leaves each listed chain as
\* it was, followed by the maps held for the names listed.
C7_AppendExtends == [][C7_Step]_vars

\* an append that added a map behind an entry the chain already had
C7_Witness ==
  /\ last.op = "append"
  /\ \E kind \in DOMAIN last.config :
       /\ Len(Resolved(last.config[kind], maps)) = 1
       /\ Len(configurations[kind]) = 2
       /\ configurations[kind][1] # configurations[kind][2]

\* C8: append(config) leaves the chain of every category config does not
\* list as it was; configure(config) leaves such a category empty.
C8_Step ==
  /\ last'.op = "append" =>
       \A kind \in Configurations \ DOMAIN last'.config :
         configurations'[kind] = configurations[kind]
  /\ last'.op = "configure" =>
       \A kind \in Configurations \ DOMAIN last'.config :
         configurations'[kind] = <<>>

\* C8: every step keeps to C8_Step: an append leaves the categories it does
\* not list as they were, a configure leaves them empty.
C8_AppendFrame == [][C8_Step]_vars

\* an append that added to one category while another category, not in
\* the argument, holds an entry
C8_Witness ==
  /\ last.op = "append"
  /\ \E kind \in DOMAIN last.config :
       /\ configurations[kind] # <<>>
       /\ last.before = 1
       /\ \E other \in Configurations \ DOMAIN last.config :
            configurations[other] # <<>>

\* C9: the first access binds each of the four categories to an empty
\* chain, and they stay bound: no call on a category fails for want of
\* its Configuration; on an empty chain parse and lookup return null and
\* contains returns false.
C9_Step ==
  /\ (~Truthy(instance) /\ Truthy(instance')) =>
       configurations' = [kind \in Configurations |-> <<>>]
  /\ Truthy(instance') =>
       /\ DOMAIN configurations' = Configurations
       /\ last'.op \in {"lookup", "contains", "append", "configure"}
            => ~last'.threw
       /\ last'.op = "parse" =>
            /\ last'.threw =>
                 \E i \in 1..Len(configurations'[last'.kind]) :
                   SymbolMap_parse_throws(configurations'[last'.kind][i],
                                          last'.symbol)
            /\ configurations'[last'.kind] = <<>> =>
                 ~last'.threw /\ last'.result = Null
       /\ (last'.op = "lookup" /\ configurations'[last'.kind] = <<>>)
            => last'.result = Null
       /\ (last'.op = "contains" /\ configurations'[last'.kind] = <<>>)
            => last'.result = "false"

\* C9: every step keeps to C9_Step: from the first access on the four
\* categories are bound, and no call fails for want of a Configuration.
C9_AlwaysConfigured == [][C9_Step]_vars

\* an append on the chains as the constructor left them, all empty, that
\* added an entry
C9_Witness ==
  /\ last.op = "append"
  /\ ~last.threw
  /\ last.before = 0
  /\ Total(configurations) = 1

-----------------------------------------------------------------------------
\* the property bag of the n-th node
Bag(n) == heap[nodes[n].properties]

\* whether a property list holds everything another one holds
Holds(bag, list) ==
  \A p \in DOMAIN list : p \in DOMAIN bag /\ bag[p] = list[p]

\* C10: a newly constructed MmlAnnotation has a property bag that holds
\* every default of MmlAnnotationXML (definitionUrl: null, encoding: null,
\* cd: "mathmlkeys", name: "", src: null) and isChars: true.
C10_AnnotationBagHasDefaults ==
  (lastNode.op = "new" /\ nodes[lastNode.node].class = "MmlAnnotation") =>
    /\ Holds(Bag(lastNode.node),
             [definitionUrl |-> Null, encoding |-> Null,
              cd |-> "mathmlkeys", name |-> "", src |-> Null])
    /\ Holds(Bag(lastNode.node), [isChars |-> "true"])

-----------------------------------------------------------------------------
\* the classes that declare "static defaults", their supertypes included
DefaultsClasses == Classes \cup {"AMmlNode", "AMmlBaseNode"}

C11_Step ==
  lastNode'.op = "set" =>
    /\ \A m \in 1..Len(nodes) :
         m # lastNode'.node =>
           /\ nodes'[m] = nodes[m]
           /\ heap'[nodes'[m].properties] = heap[nodes[m].properties]
    /\ \A class \in DefaultsClasses :
         /\ heap'[defaults(class)] = heap[defaults(class)]
         /\ heap'[defaults(class)] = StaticHeap[defaults(class)]

\* C11: every step that sets a property of one node leaves the property
\* bag of every other node as it was, and leaves the static defaults table
\* of every class, those of the superclasses included, as it was declared.
C11_OwnPropertyBag == [][C11_Step]_vars

\* two MmlAnnotation nodes, the first with a property set on it that the
\* second, still as constructed, does not have
C11_Witness ==
  /\ Len(nodes) = 2
  /\ nodes[1].class = "MmlAnnotation"
  /\ nodes[2].class = "MmlAnnotation"
  /\ lastNode.op = "set"
  /\ lastNode.node = 1
  /\ "encoding" \in DOMAIN Bag(1)
  /\ Bag(2) = MmlAnnotation_properties

-----------------------------------------------------------------------------
\* C12: whatever properties have been set on the nodes, every node whose
\* kind is "semantics" reports notParent true, every node whose kind is
\* "annotation-xml" reports linebreakContainer true, and every
\* MmlAnnotation node has the kind "annotation-xml" and reports
\* linebreakContainer true.
C12_StructuralFlags ==
  \A n \in 1..Len(nodes) :
    /\ Node_kind(nodes[n].class) = "semantics" => notParent(nodes[n].class)
    /\ Node_kind(nodes[n].class) = "annotation-xml" =>
         linebreakContainer(nodes[n].class)
    /\ nodes[n].class = "MmlAnnotation" =>
         /\ Node_kind(nodes[n].class) = "annotation-xml"
         /\ linebreakContainer(nodes[n].class)

\* an MmlSemantics node and an MmlAnnotation node, each with a property
\* set on it since it was constructed
C12_Witness ==
  /\ Len(nodes) = 2
  /\ nodes[1].class = "MmlSemantics"
  /\ nodes[2].class = "MmlAnnotation"
  /\ Bag(1) # MmlSemantics_defaults
  /\ Bag(2) # MmlAnnotation_properties

-----------------------------------------------------------------------------
\* the positions of a chain whose map's parse gives something other than
\* the absent value for an input
NonAbsent(chain, input) ==
  {i \in 1..Len(chain) : SymbolMap_parse(chain[i], input) # Null}

\* C13: on a chain none of whose maps fails on the input, parse returns
\* the result of the first map whose parse is not absent (null), whatever
\* value that is, false included, and returns absent only when the parse
\* of every map of the chain is absent.
C13_ParseFirstNonAbsent ==
  last.op = "parse" =>
    LET chain == configurations[last.kind]
        hits == NonAbsent(chain, last.symbol)
    IN  (\A i \in 1..Len(chain) :
           ~SymbolMap_parse_throws(chain[i], last.symbol))
        => /\ ~last.threw
           /\ last.result =
                IF hits = {} THEN Null
                ELSE SymbolMap_parse(chain[Min(hits)], last.symbol)

-----------------------------------------------------------------------------
\* the elements of a sequence
Range(s) == {s[i] : i \in 1..Len(s)}

\* the chain of a category, [] while the category has none
Chain(cs, kind) == IF kind \in DOMAIN cs THEN cs[kind] ELSE <<>>

\* An entry comes into the chain of a category only by a configure or an
\* append whose argument lists the name of the entry's map for that
\* category; a register, which makes a name known that a chain was built
\* without, brings nothing into a chain.  contains, lookup and parse go by
\* the entries of the chain alone: parse calls no map that is not an
\* entry, and where no entry contains or parses the symbol the answer is
\* false or absent, whatever the store holds.
C14_Step ==
  /\ \A kind \in Configurations :
       LET old == Chain(configurations, kind)
           chain == Chain(configurations', kind)
       IN  \A i \in 1..Len(chain) :
             \/ i <= Len(old) /\ old[i] = chain[i]
             \/ /\ last'.op \in {"configure", "append"}
                /\ getName(chain[i]) \in Range(Listed(last'.config, kind))
  /\ last'.op \in {"contains", "lookup", "parse"} =>
       LET chain == Chain(configurations', last'.kind) IN
       /\ Range(last'.calls) \subseteq Range(chain)
       /\ (last'.op = "contains" /\ Containing(chain, last'.symbol) = {})
            => last'.result = "false"
       /\ (last'.op = "lookup" /\ Containing(chain, last'.symbol) = {})
            => last'.result = Null
       /\ ( /\ last'.op = "parse"
            /\ \A i \in 1..Len(chain) :
                 /\ ~SymbolMap_parse_throws(chain[i], last'.symbol)
                 /\ SymbolMap_parse(chain[i], last'.symbol) = Null )
            => last'.result = Null /\ ~last'.threw

\* C14: every step keeps to C14_Step: a map registered under a name after
\* a configure or append named it in vain is in no chain and is not
\* consulted until a configure or append lists the name again.
C14_ForwardReferenceNotRetried == [][C14_Step]_vars

\* the call before warned that a name was not found; a map has now been
\* registered under that name, and the map is in no chain
C14_Witness ==
  /\ last.op = "register"
  /\ last.forward
  /\ MapGet(maps, getName(last.map)) = last.map
  /\ \A kind \in Configurations :
       last.map \notin Range(configurations[kind])

-----------------------------------------------------------------------------
\* how many times a sequence holds a value
Count(s, x) == Cardinality({i \in 1..Len(s) : s[i] = x})

\* C15: a chain has one entry for each time a registered name was added.
\* After configure, the chain of a listed category holds the map of a
\* registered name as many times as the list names it; an append makes
\* the chains longer by one entry for each registered name of its list,
\* the new entries last and in the order listed; and a parse that no map
\* answers has called every entry of the chain in turn, an entry that is
\* there twice twice.
C15_ChainsKeepDuplicates ==
  /\ last.op = "configure" =>
       \A kind \in DOMAIN last.config : \A name \in DOMAIN maps :
         Count(configurations[kind], maps[name])
           = Count(last.config[kind], name)
  /\ (last.op = "append" /\ ~last.threw) =>
       \A kind \in DOMAIN last.config :
         LET chain == configurations[kind]
             added == Resolved(last.config[kind], maps)
         IN  /\ Total(configurations) = last.before + Len(added)
             /\ Len(added) <= Len(chain)
             /\ SubSeq(chain, Len(chain) - Len(added) + 1, Len(chain))
                  = added
             /\ \A name \in DOMAIN maps :
                  Count(added, maps[name]) = Count(last.config[kind], name)
  /\ (last.op = "parse" /\ ~last.threw /\ last.result = Null) =>
       last.calls = configurations[last.kind]

\* a parse on a chain that holds the same map twice has called it twice
C15_Witness ==
  /\ last.op = "parse"
  /\ Len(configurations[last.kind]) = 2
  /\ configurations[last.kind][1] = configurations[last.kind][2]
  /\ last.calls = configurations[last.kind]

-----------------------------------------------------------------------------
\* the positions of a chain whose map's parse raises on an input
Failing(chain, input) ==
  {i \in 1..Len(chain) : SymbolMap_parse_throws(chain[i], input)}

-----------------------------------------------------------------------------
\* C17: the maps a parse has called are the maps of the chain from the
\* first one on, in chain order, each position called once; where parse
\* returns a result, it is the result of the map called last, so that no
\* map after that one was called, and every map before that one yielded
\* no result (absent, null).
C17_ParseStopsAtFirstHit ==
  last.op = "parse" =>
    LET chain == configurations[last.kind]
        calls == last.calls
    IN  /\ Len(calls) <= Len(chain)
        /\ calls = SubSeq(chain, 1, Len(calls))
        /\ (~last.threw /\ last.result # Null) =>
             /\ calls # <<>>
             /\ last.result = SymbolMap_parse(chain[Len(calls)], last.symbol)
             /\ \A i \in 1..(Len(calls) - 1) :
                  SymbolMap_parse(chain[i], last.symbol) = Null

-----------------------------------------------------------------------------
C18_Step ==
  /\ last'.op = "register" =>
       \A name \in Names \ {getName(last'.map)} :
         MapGet(maps', name) = MapGet(maps, name)
  /\ last'.op \in {"getInstance", "configure", "append", "parse", "lookup",
                   "contains", "toString"} =>
       maps' = maps
  /\ (last'.op \in {"lookup", "contains", "toString"}) =>
       configurations' = configurations

\* C18: every step keeps to C18_Step: a register leaves the store entry
\* of every name but the registered map's own as it was; configure,
\* append, parse, lookup, contains and toString leave the store as it was;
\* lookup, contains and toString leave the four chains as they were.
C18_StoreChangedByRegisterOnly == [][C18_Step]_vars

\* a register of a map named "a" in a store that holds B1 under "b", and
\* holds it still
C18_Witness ==
  /\ last.op = "register"
  /\ getName(last.map) = "a"
  /\ MapGet(maps, "a") = last.map
  /\ MapGet(maps, "b") = "B1"

-----------------------------------------------------------------------------
\* the entries of a chain that the most recent call added: all of them
\* after a configure, after an append as many of the last as the chains
\* have grown by
Added(kind) ==
  LET chain == configurations[kind] IN
  CASE last.op = "configure" /\ kind \in DOMAIN last.config ->
         1..Len(chain)
    [] last.op = "append" /\ kind \in DOMAIN last.config ->
         (Len(chain) - (Total(configurations) - last.before) + 1)
           ..Len(chain)
    [] OTHER -> {}

\* C19: every entry of every chain is a map instance, never undefined or
\* null, whose name the store holds a map for; an entry that the most
\* recent configure or append added is the instance the store holds under
\* a name the call listed for the category.
C19_EntriesWereRegistered ==
  \A kind \in DOMAIN configurations :
    LET chain == configurations[kind] IN
    /\ \A i \in 1..Len(chain) :
         /\ chain[i] \in SymbolMaps
         /\ getName(chain[i]) \in DOMAIN maps
    /\ \A i \in Added(kind) :
         /\ maps[getName(chain[i])] = chain[i]
         /\ getName(chain[i]) \in Range(last.config[kind])

\* a chain holds A1, added when the store held it under "a", and the
\* store now holds A2 under "a" and A1 under no name
C19_Witness ==
  /\ \E kind \in DOMAIN configurations :
       "A1" \in Range(configurations[kind])
  /\ MapGet(maps, "a") = "A2"
  /\ \A name \in DOMAIN maps : maps[name] # "A1"

====
